---- MODULE Spec2Model ----
(***************************************************************************)
(* The request-dispatch pipeline of cobalt: per-request Context, filter    *)
(* chains, route groups and the deferred recovery function.                *)
(*                                                                         *)
(* The repository holds two revisions of the dispatcher:                   *)
(*   "httprouter": src/cobalt.go          (X-Request-Id header, no groups) *)
(*   "treemux"   : src/unnamed/part_001   (route groups, no header)        *)
(* and one Context, src/unnamed/part_000.  The variable build says which   *)
(* dispatcher a behaviour runs.                                            *)
(*                                                                         *)
(* Filters, handlers and post-filters are caller-supplied functions: what  *)
(* one does when it is called (return true, return false, fail, store      *)
(* data, write a response) is an input, chosen when the call happens.      *)
(***************************************************************************)
EXTENDS Integers, Sequences, FiniteSets, TLC

VARIABLES
    build,        \* which revision of the dispatcher
    prefilters,   \* Cobalt.prefilters
    postfilters,  \* Cobalt.postfilters
    serverError,  \* Cobalt.serverError (0 = nil)
    notFound,     \* the handler captured by router.NotFound (0 = router default)
    router,       \* path -> the composed function registered for it
    group,        \* the one Group object of the setup program
    nregs,        \* registration calls made so far
    pc,           \* position of the request being processed
    path,         \* path of that request
    idx,          \* next element of the chain to call
    ctx,          \* its Context
    resp,         \* its http.ResponseWriter
    trace,        \* the calls made for it, in order
    panicked,     \* a failure is propagating to the deferred function
    outcome,      \* how the composed function ended
    log,          \* completion records emitted for it
    hist,         \* what the setup program did, as it knows it: the handlers it gave
                  \* last, the filters it added, the group's filters when it was added
    own,          \* for each worker serving a request, the Context its composed
                  \* function holds in its local ctx (used when requests overlap)
    prev          \* "failed" when the last request ended in a failure recovered with no
                  \* server-error handler, "ok" otherwise

vars == <<build, prefilters, postfilters, serverError, notFound, router, group,
          nregs, hist, own, pc, path, idx, ctx, resp, trace, panicked, outcome, log, prev>>

config == <<build, prefilters, postfilters, serverError, notFound, router, group, nregs, hist,
           own>>
request == <<pc, path, idx, ctx, resp, trace, panicked, outcome, log>>

---------------------------------------------------------------------------
(* Bounds of the model *)

\* registration calls of the setup program
MaxRegs == 4
\* SetData calls made by the filters of one request
MaxSets == 1
\* Context methods called by one handler
MaxCalls == 2

(* Program constants *)
StatusOK == 200
StatusUnauthorized == 401
StatusNotFound == 404
StatusInternalServerError == 500

Paths == {1, 2}
HandlerIds == {1, 2}
\* what uuid.NewV4().String() may return for a request served alone
UUIDs == {"u1"}
Keys == {"PRE", "MISSING"}
\* variadic filter arguments given to Get / Group.Get
RouteFilterArgs == {<<>>, <<"fn", "fn">>, <<"nil">>}

\* a caller-supplied function value: its layer k, the route r it was given to, its position i
Cb(k, r, i) == [k |-> k, r |-> r, i |-> i]
\* the absent value (Go nil)
Nil == Cb("nil", 0, 0)
NoMap == [x \in {} |-> Nil]

\* arguments a handler gives to the methods of its Context
Vals == {Nil, Cb("val", 0, 1)}
Statuses == {0, StatusOK, StatusNotFound}
Seconds == {-1, 0, 60}
ContentTypes == {"", "text/plain"}
Bytes == {[raw |-> "pong"]}
Names == {"id", "name", "missing"}
\* parameter maps a Context is constructed with (the empty one is the nil map)
ParamMaps == {<<>>, [x \in {"id"} |-> "42"], [x \in {"id", "name"} |-> IF x = "id" THEN "42" ELSE "bob"]}

---------------------------------------------------------------------------
(* http.ResponseWriter, as the transport gives it: the first header write  *)
(* is binding, a body write without one implies 200, and header fields set *)
(* after the header was written do not reach the client.                   *)

FreshResponse ==
    [wrote |-> FALSE, code |-> 0, body |-> <<>>, xrid |-> "", ctype |-> "", cache |-> <<>>]

\* the transport keeps the code it is given first, whatever it is
WriteHeader(w, code) == IF w.wrote THEN w ELSE [w EXCEPT !.code = code, !.wrote = TRUE]

Write(w, chunk) ==
    LET w1 == WriteHeader(w, StatusOK) IN [w1 EXCEPT !.body = Append(@, chunk)]

SetHeader(w, name, v) ==
    IF w.wrote THEN w
    ELSE CASE name = "X-Request-Id" -> [w EXCEPT !.xrid = v]
           [] name = "Content-Type" -> [w EXCEPT !.ctype = v]
           [] name = "Cache-control" -> [w EXCEPT !.cache = v]

(* The Coder of the tests (JSONEncoder) *)
ContentType == "application/json;charset=UTF-8"
Encode(val) == [enc |-> val]
\* what the Coder reads back from a body; Nil when the body is not one encoding
Decode(body) ==
    IF Len(body) = 1 /\ DOMAIN body[1] = {"enc"} THEN body[1].enc ELSE Nil

---------------------------------------------------------------------------
(* Context *)

NewContext(id, p) == [ID |-> id, data |-> NoMap, params |-> p, status |-> 0]

GetData(c, key) == IF key \in DOMAIN c.data THEN c.data[key] ELSE Nil

SetDataLost(c, key, value) == c

SetData(c, key, value) == [c EXCEPT !.data = (key :> value) @@ c.data]

\* a pair: the context and the response after the call
serveEncoded(c, w, val, status, seconds) ==
    LET st == IF status = 0 THEN StatusOK ELSE status
        w1 == SetHeader(w, "Content-Type", ContentType)
        w2 == IF seconds > 0
              THEN SetHeader(w1, "Cache-control", <<"private, must-revalidate, max-age=", seconds>>)
              ELSE w1
        w3 == WriteHeader(w2, st)
        w4 == IF val # Nil THEN Write(w3, Encode(val)) ELSE w3
    IN  [c |-> [c EXCEPT !.status = st], w |-> w4]

Serve(c, w, val) == serveEncoded(c, w, val, StatusOK, 0)

\* the header field is set once the header has gone
ServeWithStatusHeaderLate(c, w, val, status) ==
    LET w1 == WriteHeader(w, status)
        w2 == SetHeader(w1, "Content-Type", ContentType)
        w3 == IF val # Nil THEN Write(w2, Encode(val)) ELSE w2
    IN  [c |-> [c EXCEPT !.status = status], w |-> w3]

ServeWithStatus(c, w, val, status) == serveEncoded(c, w, val, status, 0)

ServeStatus(c, w, status) ==
    LET st == IF status = 0 THEN StatusOK ELSE status
    IN  [c |-> [c EXCEPT !.status = st], w |-> WriteHeader(w, st)]

ServeCachedAlways(c, w, val, status, seconds) == serveEncoded(c, w, val, status, 1)

ServeCachedWithStatus(c, w, val, status, seconds) == serveEncoded(c, w, val, status, seconds)

\* serveEncoded takes (val, status, seconds): Error hands it 0 as the status
\* and its own status as the seconds
Error(c, w, body, status) == serveEncoded(c, w, body, 0, status)

\* neither defaults the status nor stores it in the context
ServeResponse(c, w, bytes, status, contentType) ==
    LET w1 == IF contentType # "" THEN SetHeader(w, "Content-Type", contentType) ELSE w
    IN  [c |-> c, w |-> Write(WriteHeader(w1, status), bytes)]

RouteValueAbsentIsNil(c, key) == IF key \in DOMAIN c.params THEN c.params[key] ELSE "<nil>"

RouteValue(c, key) == IF key \in DOMAIN c.params THEN c.params[key] ELSE ""

---------------------------------------------------------------------------
(* The router, as the dispatcher uses it: a table from path to composed    *)
(* function, the parameters it matched, and a not-found fallback.          *)

NoRoute == [kind |-> "none", h |-> Nil, filters |-> <<>>]

RouteParams(p) == IF p = 1 THEN ("id" :> "42") ELSE [x \in {} |-> ""]

\* the []FilterHandler built from the variadic arguments of a registration
MkFilters(p, args) ==
    [i \in 1..Len(args) |-> IF args[i] = "nil" THEN Cb("nilfn", p, i) ELSE Cb("rf", p, i)]

MkRoute(p, args) == [path |-> p, h |-> Cb("h", p, 0), filters |-> MkFilters(p, args)]

NoHistory ==
    [se |-> 0, nf |-> 0, over |-> {}, npre |-> 0, npost |-> 0, gpre |-> 0, gpost |-> 0]

Init ==
    /\ build \in {"httprouter", "treemux"}
    /\ prefilters = <<>>
    /\ postfilters = <<>>
    /\ serverError = 0
    /\ notFound = 0
    /\ router = [p \in Paths |-> NoRoute]
    /\ group = [prefilters |-> <<>>, postfilters |-> <<>>, routes |-> <<>>]
    /\ nregs = 0
    /\ hist = NoHistory
    /\ own = <<>>
    /\ pc = "idle"
    /\ path = 0
    /\ idx = 0
    /\ ctx = NewContext("", NoMap)
    /\ resp = FreshResponse
    /\ trace = <<>>
    /\ panicked = FALSE
    /\ outcome = "none"
    /\ log = <<>>
    /\ prev = "ok"

---------------------------------------------------------------------------
(* Registration.  It is not made while a request is in flight (spec        *)
(* section 5: registering while serving is undefined).                     *)

CanRegister == pc = "idle" /\ nregs < MaxRegs

\* the paths the router can match now
RegisteredPaths == {p \in Paths : router[p].kind # "none"}

\* the setup program's note of a handler h given as the server-error (k =
\* "se") or not-found (k = "nf") handler
NoteHandler(k, h) ==
    LET was == IF k = "se" THEN hist.se ELSE hist.nf
        over == IF was \notin {0, h} THEN hist.over \cup {k} ELSE hist.over \ {k}
    IN  IF k = "se"
        THEN [hist EXCEPT !.se = h, !.over = over]
        ELSE [hist EXCEPT !.nf = h, !.over = over]

\* the first handler given stays
AddServerErrHandlerFirstWins ==
    /\ CanRegister
    /\ \E h \in HandlerIds :
          /\ serverError' = (IF serverError = 0 THEN h ELSE serverError)
          /\ hist' = NoteHandler("se", h)
    /\ nregs' = nregs + 1
    /\ UNCHANGED <<build, own, prefilters, postfilters, notFound, router, group, prev>>
    /\ UNCHANGED request

\* a filter added once a route is registered is not seen by that route
AddPrefilterSeenByLaterRoutes ==
    /\ CanRegister
    /\ prefilters' = (IF RegisteredPaths = {}
                      THEN Append(prefilters, Cb("pre", 0, Len(prefilters) + 1))
                      ELSE prefilters)
    /\ hist' = [hist EXCEPT !.npre = @ + 1]
    /\ nregs' = nregs + 1
    /\ UNCHANGED <<build, own, postfilters, serverError, notFound, router, group, prev>>
    /\ UNCHANGED request

AddPrefilter ==
    /\ CanRegister
    /\ prefilters' = Append(prefilters, Cb("pre", 0, Len(prefilters) + 1))
    /\ hist' = [hist EXCEPT !.npre = @ + 1]
    /\ nregs' = nregs + 1
    /\ UNCHANGED <<build, own, postfilters, serverError, notFound, router, group, prev>>
    /\ UNCHANGED request

AddPostfilter ==
    /\ CanRegister
    /\ postfilters' = Append(postfilters, Cb("post", 0, Len(postfilters) + 1))
    /\ hist' = [hist EXCEPT !.npost = @ + 1]
    /\ nregs' = nregs + 1
    /\ UNCHANGED <<build, own, prefilters, serverError, notFound, router, group, prev>>
    /\ UNCHANGED request

AddServerErrHandler ==
    /\ CanRegister
    /\ \E h \in HandlerIds :
          /\ serverError' = h
          /\ hist' = NoteHandler("se", h)
    /\ nregs' = nregs + 1
    /\ UNCHANGED <<build, own, prefilters, postfilters, notFound, router, group, prev>>
    /\ UNCHANGED request

AddNotFoundHandler ==
    /\ CanRegister
    /\ \E h \in HandlerIds :
          /\ notFound' = h
          /\ hist' = NoteHandler("nf", h)
    /\ nregs' = nregs + 1
    /\ UNCHANGED <<build, own, prefilters, postfilters, serverError, router, group, prev>>
    /\ UNCHANGED request

\* Get, Post, Put, Delete, Options, Head: all are addroute with a verb
addroute ==
    /\ CanRegister
    /\ \E p \in Paths, args \in RouteFilterArgs :
          /\ router[p].kind = "none"
          /\ router' = [router EXCEPT ![p] =
                 [kind |-> "direct", h |-> Cb("h", p, 0), filters |-> MkFilters(p, args)]]
    /\ UNCHANGED hist
    /\ nregs' = nregs + 1
    /\ UNCHANGED <<build, own, prefilters, postfilters, serverError, notFound, group, prev>>
    /\ UNCHANGED request

GroupAddPrefilter ==
    /\ CanRegister
    /\ build = "treemux"
    /\ group' = [group EXCEPT !.prefilters = Append(@, Cb("gpre", 0, Len(@) + 1))]
    /\ UNCHANGED hist
    /\ nregs' = nregs + 1
    /\ UNCHANGED <<build, own, prefilters, postfilters, serverError, notFound, router, prev>>
    /\ UNCHANGED request

GroupAddPostfilter ==
    /\ CanRegister
    /\ build = "treemux"
    /\ group' = [group EXCEPT !.postfilters = Append(@, Cb("gpost", 0, Len(@) + 1))]
    /\ UNCHANGED hist
    /\ nregs' = nregs + 1
    /\ UNCHANGED <<build, own, prefilters, postfilters, serverError, notFound, router, prev>>
    /\ UNCHANGED request

\* Group.Get, Post, ...: all are Group.addRoute with a verb
GroupAddRoute ==
    /\ CanRegister
    /\ build = "treemux"
    /\ \E p \in Paths, args \in RouteFilterArgs :
          /\ \A k \in 1..Len(group.routes) : group.routes[k].path # p
          /\ group' = [group EXCEPT !.routes = Append(@, MkRoute(p, args))]
    /\ UNCHANGED hist
    /\ nregs' = nregs + 1
    /\ UNCHANGED <<build, own, prefilters, postfilters, serverError, notFound, router, prev>>
    /\ UNCHANGED request

\* The closures built in the loop all capture the one loop variable route
\* (no go.mod: the language version is below 1.22), which holds the last
\* element of g.routes when any of them runs; g is captured as a pointer.
LoopVariable(routes) == routes[Len(routes)]

AddGroup ==
    /\ CanRegister
    /\ build = "treemux"
    /\ \A k \in 1..Len(group.routes) : router[group.routes[k].path].kind = "none"
    /\ router' = [p \in Paths |->
          IF \E k \in 1..Len(group.routes) : group.routes[k].path = p
          THEN [kind |-> "group", h |-> LoopVariable(group.routes).h,
                filters |-> LoopVariable(group.routes).filters]
          ELSE router[p]]
    /\ hist' = (IF group.routes = <<>> THEN hist
                ELSE [hist EXCEPT !.gpre = Len(group.prefilters),
                                  !.gpost = Len(group.postfilters)])
    /\ nregs' = nregs + 1
    /\ UNCHANGED <<build, own, prefilters, postfilters, serverError, notFound, group, prev>>
    /\ UNCHANGED request

---------------------------------------------------------------------------
(* The composed function of a route: what it calls, in the order of its    *)
(* loops.                                                                  *)

DirectChainFiltersFirst(e) == e.filters \o prefilters \o <<e.h>> \o postfilters

DirectChainPostFirst(e) == prefilters \o e.filters \o postfilters \o <<e.h>>

\* the function built by addroute
DirectChain(e) == prefilters \o e.filters \o <<e.h>> \o postfilters

\* the function built by AddGroup; g.prefilters and g.postfilters are read
\* through the captured pointer when the request runs
GroupChain(e) ==
    prefilters \o group.prefilters \o e.filters \o <<e.h>>
        \o group.postfilters \o postfilters

Chain(e) == IF e.kind = "group" THEN GroupChain(e) ELSE DirectChain(e)

IsFilter(cb) == cb.k \in {"pre", "gpre", "rf", "nilfn"}
IsPost(cb) == cb.k \in {"gpost", "post"}

\* one call, as the callee sees it: the context it was handed, what GetData
\* gave it on entry, whether it stored data, and how it ended
Call(cb, c, set, ret) ==
    [cb |-> cb, id |-> c.ID, saw |-> [k \in Keys |-> GetData(c, k)], set |-> set, ret |-> ret]

NumSets == Cardinality({i \in 1..Len(trace) : trace[i].set})

\* the composed function's first statements, up to the first loop
Enter(id, p) ==
    LET c == NewContext(id, RouteParams(p))
        w == IF build = "httprouter"
             THEN SetHeader(FreshResponse, "X-Request-Id", c.ID)
             ELSE FreshResponse
    IN  [c |-> c, w |-> w]

\* the router matched the request: the composed function starts
Dispatch ==
    /\ pc = "idle"
    /\ \E p \in Paths, id \in UUIDs :
          /\ router[p].kind # "none"
          /\ path' = p
          /\ ctx' = Enter(id, p).c
          /\ resp' = Enter(id, p).w
    /\ pc' = "run"
    /\ idx' = 1
    /\ trace' = <<>>
    /\ panicked' = FALSE
    /\ outcome' = "none"
    /\ log' = <<>>
    /\ UNCHANGED <<config, prev>>

\* the call returned and the composed function goes on
Continue ==
    /\ idx' = idx + 1
    /\ pc' = IF idx + 1 > Len(Chain(router[path])) THEN "defer" ELSE "run"
    /\ panicked' = FALSE

ReturnIgnored ==
    /\ idx' = idx + 1
    /\ pc' = "run"
    /\ panicked' = FALSE

\* the composed function returns early: the deferred function runs next
Return ==
    /\ idx' = idx
    /\ pc' = "defer"
    /\ panicked' = FALSE

\* the failure is swallowed where it was raised and the flow goes on
PanicSwallowed ==
    /\ idx' = idx + 1
    /\ pc' = IF idx + 1 > Len(Chain(router[path])) THEN "defer" ELSE "run"
    /\ panicked' = TRUE

\* the call failed: the deferred function runs next, recover() is non-nil
Panic ==
    /\ idx' = idx
    /\ pc' = "defer"
    /\ panicked' = TRUE

\* a pre-filter, group pre-filter or route filter is called
CallFilter ==
    /\ pc = "run"
    /\ LET cb == Chain(router[path])[idx] IN
       /\ IsFilter(cb)
       /\ \/ /\ cb.k = "nilfn"
             /\ Panic
             /\ UNCHANGED <<ctx, resp, trace>>
          \/ /\ cb.k # "nilfn"
             /\ trace' = Append(trace, Call(cb, ctx, FALSE, "true"))
             /\ Continue
             /\ UNCHANGED <<ctx, resp>>
          \/ /\ cb.k # "nilfn"
             /\ NumSets < MaxSets
             /\ ctx' = SetData(ctx, "PRE", cb)
             /\ trace' = Append(trace, Call(cb, ctx, TRUE, "true"))
             /\ Continue
             /\ UNCHANGED resp
          \/ /\ cb.k # "nilfn"
             /\ resp' = Write(WriteHeader(resp, StatusUnauthorized), cb)
             /\ trace' = Append(trace, Call(cb, ctx, FALSE, "false"))
             /\ Return
             /\ UNCHANGED ctx
          \/ /\ cb.k # "nilfn"
             /\ trace' = Append(trace, Call(cb, ctx, FALSE, "panic"))
             /\ Panic
             /\ UNCHANGED <<ctx, resp>>
    /\ UNCHANGED <<config, path, outcome, log, prev>>

\* the route handler is called
CallHandler ==
    /\ pc = "run"
    /\ LET cb == Chain(router[path])[idx] IN
       /\ cb.k = "h"
       /\ \/ /\ ctx' = Serve(ctx, resp, cb).c
             /\ resp' = Serve(ctx, resp, cb).w
             /\ trace' = Append(trace, Call(cb, ctx, FALSE, "ok"))
             /\ Continue
          \/ /\ trace' = Append(trace, Call(cb, ctx, FALSE, "panic"))
             /\ Panic
             /\ UNCHANGED <<ctx, resp>>
          \/ /\ ctx' = Serve(ctx, resp, cb).c
             /\ resp' = Serve(ctx, resp, cb).w
             /\ trace' = Append(trace, Call(cb, ctx, FALSE, "panic"))
             /\ Panic
    /\ UNCHANGED <<config, path, outcome, log, prev>>

\* a group post-filter or post-filter is called
CallPostfilter ==
    /\ pc = "run"
    /\ LET cb == Chain(router[path])[idx] IN
       /\ IsPost(cb)
       /\ \/ /\ trace' = Append(trace, Call(cb, ctx, FALSE, "ok"))
             /\ Continue
          \/ /\ trace' = Append(trace, Call(cb, ctx, FALSE, "panic"))
             /\ Panic
    /\ UNCHANGED <<config, path, ctx, resp, outcome, log, prev>>

CompletionRecord(c) == [ID |-> c.ID, status |-> c.status]

DeferredNoHandler ==
    /\ pc = "defer"
    /\ log' = Append(log, CompletionRecord(ctx))
    /\ outcome' = "returned"
    /\ pc' = "done"
    /\ UNCHANGED <<config, path, idx, ctx, resp, trace, panicked, prev>>

DeferredNoRecover ==
    /\ pc = "defer"
    /\ \/ /\ panicked
          /\ outcome' = "propagated"
          /\ UNCHANGED log
       \/ /\ ~panicked
          /\ log' = Append(log, CompletionRecord(ctx))
          /\ outcome' = "returned"
    /\ pc' = "done"
    /\ UNCHANGED <<config, path, idx, ctx, resp, trace, panicked, prev>>

\* a failure of the server-error handler is recovered too and the record emitted
DeferredGuardsHandler ==
    /\ pc = "defer"
    /\ \/ /\ panicked
          /\ serverError # 0
          /\ LET cb == Cb("se", serverError, 0) IN
             \/ /\ ctx' = ServeWithStatus(ctx, resp, cb, StatusInternalServerError).c
                /\ resp' = ServeWithStatus(ctx, resp, cb, StatusInternalServerError).w
                /\ trace' = Append(trace, Call(cb, ctx, FALSE, "ok"))
                /\ UNCHANGED log
             \/ /\ trace' = Append(trace, Call(cb, ctx, FALSE, "panic"))
                /\ log' = Append(log, CompletionRecord(ctx))
                /\ UNCHANGED <<ctx, resp>>
          /\ outcome' = "returned"
       \/ /\ ~(panicked /\ serverError # 0)
          /\ log' = Append(log, CompletionRecord(ctx))
          /\ outcome' = "returned"
          /\ UNCHANGED <<ctx, resp, trace>>
    /\ pc' = "done"
    /\ UNCHANGED <<config, path, idx, panicked, prev>>

\* the deferred function of the composed function
Deferred ==
    /\ pc = "defer"
    /\ \/ /\ panicked
          /\ serverError # 0
          /\ LET cb == Cb("se", serverError, 0) IN
             \/ /\ ctx' = ServeWithStatus(ctx, resp, cb, StatusInternalServerError).c
                /\ resp' = ServeWithStatus(ctx, resp, cb, StatusInternalServerError).w
                /\ trace' = Append(trace, Call(cb, ctx, FALSE, "ok"))
                /\ outcome' = "returned"
             \/ /\ trace' = Append(trace, Call(cb, ctx, FALSE, "panic"))
                /\ outcome' = "propagated"
                /\ UNCHANGED <<ctx, resp>>
          /\ UNCHANGED log
       \/ /\ ~(panicked /\ serverError # 0)
          /\ log' = Append(log, CompletionRecord(ctx))
          /\ outcome' = "returned"
          /\ UNCHANGED <<ctx, resp, trace>>
    /\ pc' = "done"
    /\ UNCHANGED <<config, path, idx, panicked, prev>>

NotFoundThroughFilters ==
    /\ pc = "idle"
    /\ \E p \in Paths, id \in UUIDs :
          /\ router[p].kind = "none"
          /\ path' = p
          /\ ctx' = NewContext(id, NoMap)
          /\ resp' = FreshResponse
          /\ trace' = [i \in 1..Len(prefilters) |->
                         Call(prefilters[i], NewContext(id, NoMap), FALSE, "true")]
                     \o <<Call(Cb("nf", notFound, 0), NewContext(id, NoMap), FALSE, "ok")>>
          /\ outcome' = "returned"
    /\ pc' = "done"
    /\ idx' = 0
    /\ panicked' = FALSE
    /\ log' = <<>>
    /\ UNCHANGED <<config, prev>>

\* the not-found handler runs inside the recovery boundary of the routes
ServeNotFoundRecovered ==
    /\ pc = "idle"
    /\ \E p \in Paths, id \in UUIDs :
          /\ router[p].kind = "none"
          /\ path' = p
          /\ \/ /\ notFound # 0
                /\ LET c == NewContext(id, NoMap)
                       cb == Cb("nf", notFound, 0) IN
                   \/ /\ ctx' = ServeWithStatus(c, FreshResponse, cb, StatusNotFound).c
                      /\ resp' = ServeWithStatus(c, FreshResponse, cb, StatusNotFound).w
                      /\ trace' = <<Call(cb, c, FALSE, "ok")>>
                      /\ log' = <<CompletionRecord(ServeWithStatus(c, FreshResponse, cb, StatusNotFound).c)>>
                   \/ /\ ctx' = c
                      /\ resp' = FreshResponse
                      /\ trace' = IF serverError # 0
                                  THEN <<Call(cb, c, FALSE, "panic"),
                                         Call(Cb("se", serverError, 0), c, FALSE, "ok")>>
                                  ELSE <<Call(cb, c, FALSE, "panic")>>
                      /\ log' = <<>>
             \/ /\ notFound = 0
                /\ ctx' = NewContext("", NoMap)
                /\ resp' = Write(WriteHeader(FreshResponse, StatusNotFound), Cb("router", 0, 0))
                /\ trace' = <<>>
                /\ log' = <<>>
    /\ outcome' = "returned"
    /\ pc' = "done"
    /\ idx' = 0
    /\ panicked' = FALSE
    /\ UNCHANGED <<config, prev>>

\* the router matched nothing: router.NotFound
ServeNotFound ==
    /\ pc = "idle"
    /\ \E p \in Paths, id \in UUIDs :
          /\ router[p].kind = "none"
          /\ path' = p
          /\ \/ /\ notFound # 0
                /\ LET c == NewContext(id, NoMap)
                       cb == Cb("nf", notFound, 0) IN
                   \/ /\ ctx' = ServeWithStatus(c, FreshResponse, cb, StatusNotFound).c
                      /\ resp' = ServeWithStatus(c, FreshResponse, cb, StatusNotFound).w
                      /\ trace' = <<Call(cb, c, FALSE, "ok")>>
                      /\ outcome' = "returned"
                   \/ /\ ctx' = c
                      /\ resp' = FreshResponse
                      /\ trace' = <<Call(cb, c, FALSE, "panic")>>
                      /\ outcome' = "propagated"
             \/ /\ notFound = 0
                /\ ctx' = NewContext("", NoMap)
                /\ resp' = Write(WriteHeader(FreshResponse, StatusNotFound), Cb("router", 0, 0))
                /\ trace' = <<>>
                /\ outcome' = "returned"
    /\ pc' = "done"
    /\ idx' = 0
    /\ panicked' = FALSE
    /\ log' = <<>>
    /\ UNCHANGED <<config, prev>>

\* the response has gone to the client; the dispatcher waits for the next request
Finish ==
    /\ pc = "done"
    /\ pc' = "idle"
    /\ prev' = IF panicked /\ serverError = 0 THEN "failed" ELSE "ok"
    /\ path' = 0
    /\ idx' = 0
    /\ ctx' = NewContext("", NoMap)
    /\ resp' = FreshResponse
    /\ trace' = <<>>
    /\ panicked' = FALSE
    /\ outcome' = "none"
    /\ log' = <<>>
    /\ UNCHANGED config

Next ==
    \/ AddPrefilter
    \/ AddPostfilter
    \/ AddServerErrHandler
    \/ AddNotFoundHandler
    \/ addroute
    \/ GroupAddPrefilter
    \/ GroupAddPostfilter
    \/ GroupAddRoute
    \/ AddGroup
    \/ Dispatch
    \/ CallFilter
    \/ CallHandler
    \/ CallPostfilter
    \/ Deferred
    \/ ServeNotFound
    \/ Finish

Spec == Init /\ [][Next]_vars

\* The dispatcher with a route on the path of EarlyPaths already registered,
\* directly or through a group, and nothing else: whatever the setup program
\* registers from here on is registered after that route.
EarlyPaths == {1}

InitServing ==
    /\ build \in {"httprouter", "treemux"}
    /\ prefilters = <<>>
    /\ postfilters = <<>>
    /\ serverError = 0
    /\ notFound = 0
    /\ \E p \in EarlyPaths, args \in RouteFilterArgs :
          \/ /\ router = [q \in Paths |->
                    IF q = p
                    THEN [kind |-> "direct", h |-> Cb("h", p, 0), filters |-> MkFilters(p, args)]
                    ELSE NoRoute]
             /\ group = [prefilters |-> <<>>, postfilters |-> <<>>, routes |-> <<>>]
             /\ nregs = 1
          \/ /\ build = "treemux"
             /\ router = [q \in Paths |->
                    IF q = p
                    THEN [kind |-> "group", h |-> LoopVariable(<<MkRoute(p, args)>>).h,
                          filters |-> LoopVariable(<<MkRoute(p, args)>>).filters]
                    ELSE NoRoute]
             /\ group = [prefilters |-> <<>>, postfilters |-> <<>>,
                         routes |-> <<MkRoute(p, args)>>]
             /\ nregs = 2
    /\ hist = NoHistory
    /\ own = <<>>
    /\ pc = "idle"
    /\ path = 0
    /\ idx = 0
    /\ ctx = NewContext("", NoMap)
    /\ resp = FreshResponse
    /\ trace = <<>>
    /\ panicked = FALSE
    /\ outcome = "none"
    /\ log = <<>>
    /\ prev = "ok"

SpecServing == InitServing /\ [][Next]_vars

---------------------------------------------------------------------------
(* The Context on its own: a handler holding a Context calls its methods.  *)
(* trace records each call: its arguments, whether the response was still  *)
(* unwritten when it was made, and how it ended.                           *)

InitContext ==
    /\ build = "treemux"
    /\ prefilters = <<>>
    /\ postfilters = <<>>
    /\ serverError = 0
    /\ notFound = 0
    /\ router = [p \in Paths |-> NoRoute]
    /\ group = [prefilters |-> <<>>, postfilters |-> <<>>, routes |-> <<>>]
    /\ nregs = 0
    /\ hist = NoHistory
    /\ own = <<>>
    /\ pc = "handler"
    /\ path = 0
    /\ idx = 0
    /\ ctx \in {NewContext("u1", p) : p \in ParamMaps}
    /\ resp = FreshResponse
    /\ trace = <<>>
    /\ panicked = FALSE
    /\ outcome = "none"
    /\ log = <<>>
    /\ prev = "ok"

InHandler == pc = "handler" /\ Len(trace) < MaxCalls

MethodCall(name, val, status, seconds, contentType, key, out) ==
    [call |-> name, val |-> val, status |-> status, seconds |-> seconds,
     ctype |-> contentType, key |-> key, fresh |-> ~resp.wrote, out |-> out]

\* the method ran to its end: r is the pair it leaves
Served(r, entry) ==
    /\ ctx' = r.c
    /\ resp' = r.w
    /\ trace' = Append(trace, entry)
    /\ UNCHANGED <<config, pc, path, idx, panicked, outcome, log, prev>>

CallServe ==
    /\ InHandler
    /\ \E v \in Vals :
          Served(Serve(ctx, resp, v), MethodCall("Serve", v, 0, 0, "", "", "ok"))

CallServeWithStatus ==
    /\ InHandler
    /\ \E v \in Vals, s \in Statuses :
          Served(ServeWithStatus(ctx, resp, v, s),
                 MethodCall("ServeWithStatus", v, s, 0, "", "", "ok"))

CallServeCachedWithStatus ==
    /\ InHandler
    /\ \E v \in Vals, s \in Statuses, n \in Seconds :
          Served(ServeCachedWithStatus(ctx, resp, v, s, n),
                 MethodCall("ServeCachedWithStatus", v, s, n, "", "", "ok"))

CallServeStatus ==
    /\ InHandler
    /\ \E s \in Statuses :
          Served(ServeStatus(ctx, resp, s), MethodCall("ServeStatus", Nil, s, 0, "", "", "ok"))

CallError ==
    /\ InHandler
    /\ \E v \in Vals, s \in Statuses :
          Served(Error(ctx, resp, v, s), MethodCall("Error", v, s, 0, "", "", "ok"))

\* a transport that checks the code it is given fails on one below 100; one
\* that does not check writes it as it is
CallServeResponse ==
    /\ InHandler
    /\ \E b \in Bytes, s \in Statuses, t \in ContentTypes :
          \/ Served(ServeResponse(ctx, resp, b, s, t),
                    MethodCall("ServeResponse", b, s, 0, t, "", "ok"))
          \/ /\ s = 0
             /\ ~resp.wrote
             /\ Served([c |-> ctx, w |-> resp],
                       MethodCall("ServeResponse", b, s, 0, t, "", "panic"))

CallRouteValue ==
    /\ InHandler
    /\ \E key \in Names :
          Served([c |-> ctx, w |-> resp],
                 MethodCall("RouteValue", Nil, 0, 0, "", key, RouteValue(ctx, key)))

NextContext ==
    \/ CallServe
    \/ CallServeWithStatus
    \/ CallServeCachedWithStatus
    \/ CallServeStatus
    \/ CallError
    \/ CallServeResponse
    \/ CallRouteValue

SpecContext == InitContext /\ [][NextContext]_vars

---------------------------------------------------------------------------
(* Two requests at once.  The transport runs ServeHTTP for each request on *)
(* a goroutine of its own; the composed function of each allocates its     *)
(* Context (ctx := NewContext(...), &Context{...} with a map made for it)  *)
(* and hands that pointer to the calls it makes.  Here ctx is the heap of  *)
(* Contexts by address, own[w] the pointer worker w holds, and pc, resp    *)
(* and trace are per worker; trace[w] is what w's request did: the ID it   *)
(* was given, the data it stored, the statuses it served.                  *)

Workers == {"w1", "w2"}
Addrs == {"c1", "c2"}
ConcurrentIds == {"u1", "u2"}
ServedStatuses == {StatusOK, StatusNotFound}

\* what an address holds while no live Context is there
NoContext == NewContext("", NoMap)

\* any address, in use or not
AnyAddrs(w) == Addrs

\* where a new Context can be placed: not where another worker's live one is
FreeAddrs(w) == {a \in Addrs : \A v \in Workers \ {w} : pc[v] = "idle" \/ own[v] # a}

Did(op, id, key, val, status) ==
    [op |-> op, id |-> id, key |-> key, val |-> val, status |-> status]

InitConcurrent ==
    /\ build \in {"httprouter", "treemux"}
    /\ prefilters = <<Cb("pre", 0, 1)>>
    /\ postfilters = <<>>
    /\ serverError = 0
    /\ notFound = 0
    /\ router = [q \in Paths |->
          IF q \in EarlyPaths
          THEN [kind |-> "direct", h |-> Cb("h", q, 0), filters |-> <<>>]
          ELSE NoRoute]
    /\ group = [prefilters |-> <<>>, postfilters |-> <<>>, routes |-> <<>>]
    /\ nregs = 2
    /\ hist = [NoHistory EXCEPT !.npre = 1]
    /\ own = [w \in Workers |-> CHOOSE a \in Addrs : TRUE]
    /\ pc = [w \in Workers |-> "idle"]
    /\ path = 0
    /\ idx = 0
    /\ ctx = [a \in Addrs |-> NoContext]
    /\ resp = [w \in Workers |-> FreshResponse]
    /\ trace = [w \in Workers |-> <<>>]
    /\ panicked = FALSE
    /\ outcome = "none"
    /\ log = <<>>
    /\ prev = "ok"

\* the composed function of w's request starts: ctx := NewContext(...)
Accept(w) ==
    /\ pc[w] = "idle"
    /\ \E a \in FreeAddrs(w), id \in ConcurrentIds, p \in EarlyPaths :
          /\ own' = [own EXCEPT ![w] = a]
          /\ ctx' = [ctx EXCEPT ![a] = NewContext(id, RouteParams(p))]
          /\ trace' = [trace EXCEPT ![w] = <<Did("new", id, "", Nil, 0)>>]
    /\ pc' = [pc EXCEPT ![w] = "run"]
    /\ resp' = [resp EXCEPT ![w] = FreshResponse]
    /\ UNCHANGED <<build, prefilters, postfilters, serverError, notFound, router, group,
                   nregs, hist, path, idx, panicked, outcome, log, prev>>

Working(w) == pc[w] = "run" /\ Len(trace[w]) <= MaxCalls

\* a filter of w's request stores data in the Context it was handed
FilterSetsData(w) ==
    /\ Working(w)
    /\ \E key \in Keys :
          LET val == Cb("val", w, Len(trace[w])) IN
          /\ ctx' = [ctx EXCEPT ![own[w]] = SetData(@, key, val)]
          /\ trace' = [trace EXCEPT ![w] = Append(@, Did("set", "", key, val, 0))]
    /\ UNCHANGED <<build, prefilters, postfilters, serverError, notFound, router, group,
                   nregs, hist, own, pc, path, idx, resp, panicked, outcome, log, prev>>

\* the handler of w's request serves through the Context it was handed
HandlerServes(w) ==
    /\ Working(w)
    /\ \E status \in ServedStatuses :
          LET r == ServeWithStatus(ctx[own[w]], resp[w], Cb("h", w, 0), status) IN
          /\ ctx' = [ctx EXCEPT ![own[w]] = r.c]
          /\ resp' = [resp EXCEPT ![w] = r.w]
          /\ trace' = [trace EXCEPT ![w] = Append(@, Did("serve", "", "", Nil, status))]
    /\ UNCHANGED <<build, prefilters, postfilters, serverError, notFound, router, group,
                   nregs, hist, own, pc, path, idx, panicked, outcome, log, prev>>

\* the composed function of w's request returns; its Context is garbage
Complete(w) ==
    /\ pc[w] = "run"
    /\ pc' = [pc EXCEPT ![w] = "idle"]
    /\ ctx' = [ctx EXCEPT ![own[w]] = NoContext]
    /\ trace' = [trace EXCEPT ![w] = <<>>]
    /\ resp' = [resp EXCEPT ![w] = FreshResponse]
    /\ UNCHANGED <<build, prefilters, postfilters, serverError, notFound, router, group,
                   nregs, hist, own, path, idx, panicked, outcome, log, prev>>

NextConcurrent ==
    \/ \E w \in Workers : Accept(w)
    \/ \E w \in Workers : FilterSetsData(w)
    \/ \E w \in Workers : HandlerServes(w)
    \/ \E w \in Workers : Complete(w)

SpecConcurrent == InitConcurrent /\ [][NextConcurrent]_vars

---------------------------------------------------------------------------
(* Vocabulary of the properties *)

\* the request in hand was dispatched to a registered route
Matched == pc # "idle" /\ path \in Paths /\ router[path].kind # "none"

\* the request in hand took the not-found path
Unmatched == pc # "idle" /\ path \in Paths /\ router[path].kind = "none"

\* the composed function has left its body (its deferred function is due or done)
Left == pc \in {"defer", "done"}

IsPrefix(s, t) == Len(s) <= Len(t) /\ \A i \in 1..Len(s) : s[i] = t[i]

Calls == [i \in 1..Len(trace) |-> trace[i].cb]
CallsOf(kinds) == SelectSeq(Calls, LAMBDA cb : cb.k \in kinds)
Halted == \E i \in 1..Len(trace) : trace[i].ret = "false"
HandlerReturned == \E i \in 1..Len(trace) : trace[i].cb.k = "h" /\ trace[i].ret = "ok"
HandlerFailed == \E i \in 1..Len(trace) : trace[i].cb.k = "h" /\ trace[i].ret = "panic"
FailedIn(kinds) == \E i \in 1..Len(trace) : trace[i].cb.k \in kinds /\ trace[i].ret = "panic"
HandlerWrote == \E i \in 1..Len(resp.body) : resp.body[i] = Encode(router[path].h)

\* the i-th function registered in a layer, by registration order
Registered(k, n) == [i \in 1..n |-> Cb(k, 0, i)]
\* the filters given with route r, up to the first nil entry (which cannot run)
RouteFiltersOf(r, fs) ==
    [i \in 1..Len(fs) |-> Cb("rf", r, i)]
CallableRouteFilters(r, fs) ==
    LET nils == {i \in 1..Len(fs) : fs[i].k = "nilfn"}
        n == IF nils = {} THEN Len(fs) ELSE (CHOOSE i \in nils : \A j \in nils : i <= j) - 1
    IN  SubSeq(RouteFiltersOf(r, fs), 1, n)

ExpectedPosts ==
    IF router[path].kind = "group"
    THEN Registered("gpost", Len(group.postfilters)) \o Registered("post", Len(postfilters))
    ELSE Registered("post", Len(postfilters))

\* the route of the group that was declared for path p
DeclaredRoute(p) == CHOOSE k \in 1..Len(group.routes) : group.routes[k].path = p

\* what a request to a directly registered route is to call, in order
DirectExpected ==
    Registered("pre", Len(prefilters))
        \o CallableRouteFilters(path, router[path].filters)
        \o <<Cb("h", path, 0)>>
        \o Registered("post", Len(postfilters))

\* the server-error handler was called once, last, with the request's context
ServerErrorInvokedOnce ==
    /\ CallsOf({"se"}) = <<Cb("se", serverError, 0)>>
    /\ trace[Len(trace)].cb.k = "se"
    /\ trace[Len(trace)].id = ctx.ID
    /\ trace[Len(trace)].saw = [k \in Keys |-> GetData(ctx, k)]

\* the composed function returned and the response is the server-error handler's
ServerErrorResponse ==
    /\ outcome = "returned"
    /\ ~HandlerWrote =>
          /\ resp.code = StatusInternalServerError
          /\ resp.body = <<Encode(Cb("se", serverError, 0))>>

\* the value the last SetData before call j stored under "PRE"
LastSet(j) ==
    LET before == {i \in 1..(j - 1) : trace[i].set} IN
    IF before = {} THEN Nil
    ELSE trace[CHOOSE i \in before : \A m \in before : m <= i].cb

---------------------------------------------------------------------------
C2_GroupOrder ==
    (pc = "done" /\ Matched /\ router[path].kind = "group" /\ ~panicked /\ ~Halted) =>
        Calls = Registered("pre", Len(prefilters))
                  \o Registered("gpre", Len(group.prefilters))
                  \o RouteFiltersOf(path, group.routes[DeclaredRoute(path)].filters)
                  \o <<Cb("h", path, 0)>>
                  \o Registered("gpost", Len(group.postfilters))
                  \o Registered("post", Len(postfilters))

(* C3: for a route registered directly, the calls are a prefix of: global  *)
(* pre-filters, the route's filters, the handler, global post-filters,     *)
(* each layer in registration order; the whole of it when the composed     *)
(* function ran to its end.                                                *)
C3_DirectOrder ==
    (Matched /\ router[path].kind = "direct") =>
        /\ IsPrefix(CallsOf({"pre", "gpre", "rf", "h", "gpost", "post"}), DirectExpected)
        /\ (Left /\ ~panicked /\ ~Halted) => Calls = DirectExpected

C3_Witness ==
    /\ pc = "done" /\ Matched /\ router[path].kind = "direct"
    /\ ~panicked /\ ~Halted
    /\ Len(prefilters) >= 1 /\ Len(router[path].filters) = 2 /\ Len(postfilters) >= 1

(* C4, as stated: the post-filters all run, in registration order, exactly *)
(* when the handler returned normally; none runs for a halted request or   *)
(* for a request in which a handler or filter raised a failure.            *)
C4_PostFiltersAsStated ==
    (pc = "done" /\ Matched) =>
        /\ HandlerReturned => CallsOf({"gpost", "post"}) = ExpectedPosts
        /\ ~HandlerReturned => CallsOf({"gpost", "post"}) = <<>>
        /\ (Halted \/ panicked) => CallsOf({"gpost", "post"}) = <<>>

(* C4, amended: post-filters run only after the handler returned normally, *)
(* in registration order, and all of them run unless one of them raises a  *)
(* failure, which stops the remaining ones; none runs for a halted         *)
(* request, for a request whose pre-filter, route filter or handler raised *)
(* a failure, or after the server-error handler was invoked.               *)
C4_PostFilters ==
    Matched =>
        LET posts == CallsOf({"gpost", "post"}) IN
        /\ IsPrefix(posts, ExpectedPosts)
        /\ posts # <<>> => HandlerReturned
        /\ (Left /\ HandlerReturned) =>
               \/ posts = ExpectedPosts
               \/ FailedIn({"gpost", "post"})
        /\ (Halted \/ FailedIn({"pre", "gpre", "rf", "h"})) => posts = <<>>
        /\ \A i \in 1..Len(trace) : trace[i].cb.k = "se" => i = Len(trace)

C4_Witness ==
    /\ pc = "done" /\ Matched
    /\ HandlerReturned /\ ~panicked
    /\ Len(ExpectedPosts) >= 2
    /\ CallsOf({"gpost", "post"}) = ExpectedPosts

(* C5: every request dispatched to a registered route emits exactly one    *)
(* completion record, however it ends.                                     *)
C5_OneCompletionRecord ==
    (pc = "done" /\ Matched) => Len(log) = 1

C7_FailureIsolated ==
    /\ (pc = "done" /\ Matched /\ HandlerFailed /\ serverError = 0) =>
          /\ outcome = "returned"
          /\ resp.code = (IF HandlerWrote THEN StatusOK ELSE 0)
          /\ resp.body = (IF HandlerWrote THEN <<Encode(router[path].h)>> ELSE <<>>)
          /\ ctx.status = resp.code
    /\ (prev = "failed" /\ pc = "done" /\ Matched /\ ~panicked /\ ~Halted) =>
          /\ Calls = Chain(router[path])
          /\ outcome = "returned"
          /\ resp.code = StatusOK
          /\ resp.body = <<Encode(router[path].h)>>

C7_Witness ==
    /\ prev = "failed"
    /\ pc = "done" /\ Matched /\ ~panicked /\ ~Halted
    /\ serverError = 0
    /\ Len(trace) >= 3

(* C8: the X-Request-Id response header is present and non-empty exactly   *)
(* when the not-found path was not taken; for a request dispatched to a    *)
(* registered route, direct or through a group, it equals the context's ID *)
(* from before the first filter runs.                                      *)
C8_RequestIdHeader ==
    /\ Matched => (resp.xrid # "" /\ resp.xrid = ctx.ID)
    /\ Unmatched => resp.xrid = ""

(* C9: an unmatched request with a not-found handler configured invokes    *)
(* that handler exactly once, with a context that has no route parameter,  *)
(* and calls no filter, route handler or post-filter.                      *)
C9_NotFound ==
    (pc = "done" /\ Unmatched /\ notFound # 0) =>
        /\ Calls = <<Cb("nf", notFound, 0)>>
        /\ DOMAIN ctx.params = {}

C9_Witness ==
    /\ pc = "done" /\ Unmatched /\ notFound # 0
    /\ prefilters # <<>> /\ postfilters # <<>>
    /\ \E p \in Paths : router[p].kind = "direct" /\ router[p].filters # <<>>

(* C10: within a request, GetData of a key gives, in every call, the value *)
(* of the last SetData an earlier filter made for it, and the absent value *)
(* for a key no filter has set.                                            *)
C10_ScratchData ==
    Matched =>
        /\ \A j \in 1..Len(trace) :
              /\ trace[j].saw["PRE"] = LastSet(j)
              /\ trace[j].saw["MISSING"] = Nil
        /\ GetData(ctx, "PRE") = LastSet(Len(trace) + 1)

C10_Witness ==
    /\ pc = "done" /\ Matched
    /\ \E i, j, k \in 1..Len(trace) :
          /\ i < j /\ j < k
          /\ trace[i].set /\ trace[i].cb.k \in {"pre", "rf"}
          /\ trace[j].cb.k = "h" /\ trace[j].saw["PRE"] = trace[i].cb
          /\ trace[k].cb.k = "post" /\ trace[k].saw["PRE"] = trace[i].cb

\* the request in hand ran its composed function to the end: no filter
\* halted it and nothing failed
RanThrough == pc = "done" /\ Matched /\ ~panicked /\ ~Halted

(* C17: the server-error handler called on a failure, and the not-found    *)
(* handler called for an unmatched request, is the one registered last and *)
(* no other, also for a route registered before that handler was given.    *)
C17_LastRegistrationWins ==
    pc # "handler" =>
        /\ \A i \in 1..Len(trace) :
              /\ trace[i].cb.k = "se" => trace[i].cb.r = hist.se
              /\ trace[i].cb.k = "nf" => trace[i].cb.r = hist.nf
        /\ (pc = "done" /\ Matched /\ panicked /\ hist.se # 0) =>
              CallsOf({"se"}) = <<Cb("se", hist.se, 0)>>
        /\ (pc = "done" /\ Unmatched /\ hist.nf # 0) =>
              Calls = <<Cb("nf", hist.nf, 0)>>

C17_Witness ==
    /\ pc = "done" /\ Matched /\ panicked
    /\ path \in EarlyPaths
    /\ "se" \in hist.over
    /\ CallsOf({"se"}) = <<Cb("se", hist.se, 0)>>

(* C18: a request to the k-th route of a group with several routes runs    *)
(* the route filters and the handler declared for that route, not those of *)
(* another route of the group.                                             *)
C18_OwnRoute ==
    (RanThrough /\ router[path].kind = "group") =>
        CallsOf({"rf", "h"}) =
            RouteFiltersOf(path, group.routes[DeclaredRoute(path)].filters)
                \o <<Cb("h", path, 0)>>

(* C19: pre-filters and post-filters added to the Group after AddGroup     *)
(* returned change nothing: a request to a route of the group runs the     *)
(* group filters the Group had when AddGroup was called.                   *)
C19_GroupNotRetained ==
    (RanThrough /\ router[path].kind = "group") =>
        /\ CallsOf({"gpre"}) = Registered("gpre", hist.gpre)
        /\ CallsOf({"gpost"}) = Registered("gpost", hist.gpost)

(* C20: every pre-filter and post-filter added to the dispatcher runs for  *)
(* a request to any registered route, direct or of a group, also when it   *)
(* was added after the route was registered.                               *)
C20_GlobalFiltersLateBound ==
    RanThrough =>
        /\ CallsOf({"pre"}) = Registered("pre", hist.npre)
        /\ CallsOf({"post"}) = Registered("post", hist.npost)
        /\ IsPrefix(Registered("pre", hist.npre), Calls)

C20_Witness ==
    /\ RanThrough
    /\ router[path].kind = "group"
    /\ path \in EarlyPaths
    /\ CallsOf({"pre"}) = <<Cb("pre", 0, 1)>>
    /\ CallsOf({"post"}) = <<Cb("post", 0, 1)>>

StepKinds == {"pre", "gpre", "rf", "h", "gpost", "post"}

\* the step that raised the failure is the last step called: the calls made
\* are the chain up to it (a nil entry fails without being entered), and it
\* is the only one that failed
StepsStopAtFailure ==
    LET ch == Chain(router[path])
        n == Len(CallsOf(StepKinds))
        failed == {i \in 1..Len(trace) : trace[i].cb.k \in StepKinds /\ trace[i].ret = "panic"}
    IN  /\ idx \in 1..Len(ch)
        /\ IF ch[idx].k = "nilfn"
           THEN CallsOf(StepKinds) = SubSeq(ch, 1, idx - 1) /\ failed = {}
           ELSE CallsOf(StepKinds) = SubSeq(ch, 1, idx) /\ failed = {n}
        /\ \A i \in 1..n : trace[i].cb.k \in StepKinds

\* the server-error handler was called and failed
ServerErrorFailed ==
    trace # <<>> /\ trace[Len(trace)].cb.k = "se" /\ trace[Len(trace)].ret = "panic"

ServerErrorServed ==
    \E i \in 1..Len(trace) : trace[i].cb.k = "se" /\ trace[i].ret = "ok"

(* C23: the status of the context is 0 until a serve helper is called; and *)
(* when the handler served 200 and, a post-filter having failed, the       *)
(* server-error handler served 500, the client gets the first status (200) *)
(* while the context and the completion record carry the last (500).       *)
C23_LastStatusRecorded ==
    Matched =>
        /\ (~HandlerWrote /\ ~ServerErrorServed) => ctx.status = 0
        /\ (pc = "done" /\ HandlerWrote /\ ServerErrorServed) =>
              /\ resp.code = StatusOK
              /\ ctx.status = StatusInternalServerError
              /\ log = <<[ID |-> ctx.ID, status |-> StatusInternalServerError]>>

(* C24: a failure of the server-error handler, raised while it handles a   *)
(* recovered failure, is not recovered: it leaves the composed function,   *)
(* and no completion record is emitted for the request.                    *)
C24_HandlerFailurePropagates ==
    (pc = "done" /\ Matched /\ ServerErrorFailed) =>
        /\ outcome = "propagated"
        /\ log = <<>>
        /\ CallsOf({"se"}) = <<Cb("se", serverError, 0)>>

C24_Witness ==
    /\ pc = "done" /\ Matched /\ ServerErrorFailed
    /\ HandlerFailed
    /\ outcome = "propagated"
    /\ log = <<>>

\* the not-found handler was called and failed
NotFoundFailed ==
    \E i \in 1..Len(trace) : trace[i].cb.k = "nf" /\ trace[i].ret = "panic"

(* C25: the not-found path has no recovery and no completion record: a     *)
(* failure of the not-found handler leaves ServeHTTP, the server-error     *)
(* handler is not called for it, and a not-found request emits no          *)
(* completion record whatever its handler does.                            *)
C25_NotFoundUnguarded ==
    (pc = "done" /\ Unmatched) =>
        /\ log = <<>>
        /\ CallsOf({"se"}) = <<>>
        /\ outcome = (IF NotFoundFailed THEN "propagated" ELSE "returned")

C25_Witness ==
    /\ pc = "done" /\ Unmatched
    /\ NotFoundFailed
    /\ serverError # 0
    /\ outcome = "propagated"
    /\ log = <<>>

---------------------------------------------------------------------------
(* Vocabulary of the Context properties (SpecContext) *)

ServeVariants ==
    {"Serve", "ServeWithStatus", "ServeCachedWithStatus", "ServeStatus", "Error", "ServeResponse"}
StatusTakers == {"ServeWithStatus", "ServeCachedWithStatus", "ServeStatus", "ServeResponse"}

LastCall == trace[Len(trace)]

\* the handler's last call was one of names, made while the response was
\* unwritten: what the response holds is what that call wrote
FirstWriteBy(names) ==
    pc = "handler" /\ trace # <<>> /\ LastCall.call \in names /\ LastCall.fresh

CacheControl(n) == <<"private, must-revalidate, max-age=", n>>

(* C11: after a call of any serve variant (Serve, ServeWithStatus,         *)
(* ServeCachedWithStatus, ServeStatus, Error, ServeResponse) the status    *)
(* field of the context equals the status code the call wrote.             *)
C11_StatusRecorded ==
    FirstWriteBy(ServeVariants) => ctx.status = resp.code

(* C12: a status argument of 0 given to ServeWithStatus,                   *)
(* ServeCachedWithStatus, ServeStatus or ServeResponse results in status   *)
(* 200 written to the response, and Serve always writes 200.               *)
C12_ZeroIsOK ==
    /\ (FirstWriteBy(StatusTakers) /\ LastCall.status = 0) => resp.code = StatusOK
    /\ FirstWriteBy({"Serve"}) => resp.code = StatusOK

(* C13: Error(body, status) writes the given status and the encoded body   *)
(* and sets no Cache-control header.                                       *)
C13_Error ==
    (FirstWriteBy({"Error"}) /\ LastCall.status # 0) =>
        /\ resp.code = LastCall.status
        /\ resp.body = (IF LastCall.val = Nil THEN <<>> ELSE <<Encode(LastCall.val)>>)
        /\ resp.cache = <<>>

C15_ServeWithStatus ==
    (FirstWriteBy({"ServeWithStatus"}) /\ LastCall.status # 0) =>
        /\ resp.ctype = ContentType
        /\ resp.code = LastCall.status
        /\ LastCall.val # Nil => Decode(resp.body) = LastCall.val
        /\ LastCall.val = Nil => resp.body = <<>>

C15_Witness ==
    /\ FirstWriteBy({"ServeWithStatus"})
    /\ LastCall.status = StatusNotFound
    /\ LastCall.val # Nil
    /\ resp.code = StatusNotFound
    /\ Decode(resp.body) = LastCall.val

(* C16: RouteValue(name) gives the matched value for a matched name and    *)
(* the empty string, without failing, for any other name, also on a        *)
(* context constructed with no parameter map.                              *)
C16_RouteValue ==
    pc = "handler" =>
        \A j \in 1..Len(trace) :
            trace[j].call = "RouteValue" =>
                /\ trace[j].key \in DOMAIN ctx.params => trace[j].out = ctx.params[trace[j].key]
                /\ trace[j].key \notin DOMAIN ctx.params => trace[j].out = ""

C16_Witness ==
    /\ pc = "handler"
    /\ ctx.params = <<>>
    /\ \E j \in 1..Len(trace) :
          trace[j].call = "RouteValue" /\ trace[j].key = "missing" /\ trace[j].out = ""

---------------------------------------------------------------------------
(* Vocabulary of the concurrency property (SpecConcurrent) *)

\* what w's own request stored last under key, and served last
OwnData(w, key) ==
    LET sets == {i \in 1..Len(trace[w]) : trace[w][i].op = "set" /\ trace[w][i].key = key}
    IN  IF sets = {} THEN Nil
        ELSE trace[w][CHOOSE i \in sets : \A j \in sets : j <= i].val
OwnStatus(w) ==
    LET serves == {i \in 1..Len(trace[w]) : trace[w][i].op = "serve"}
    IN  IF serves = {} THEN 0
        ELSE trace[w][CHOOSE i \in serves : \A j \in serves : j <= i].status

(* C22: every dispatched request gets a fresh Context (no data, status 0), *)
(* and while two requests overlap, whatever one stores or serves leaves    *)
(* the data, status and ID the other one observes as its own calls made    *)
(* them.                                                                   *)
C22_ContextIsOwned ==
    \A w \in Workers :
        pc[w] = "run" =>
            /\ ctx[own[w]].ID = trace[w][1].id
            /\ \A key \in Keys : GetData(ctx[own[w]], key) = OwnData(w, key)
            /\ ctx[own[w]].status = OwnStatus(w)
            /\ Len(trace[w]) = 1 =>
                  \E p \in EarlyPaths : ctx[own[w]] = NewContext(trace[w][1].id, RouteParams(p))

C22_Witness ==
    /\ \A w \in Workers : pc[w] = "run"
    /\ GetData(ctx[own["w1"]], "PRE") = Cb("val", "w1", 1)
    /\ GetData(ctx[own["w2"]], "PRE") = Cb("val", "w2", 1)
    /\ ctx[own["w1"]].status = StatusOK
    /\ ctx[own["w2"]].status = StatusNotFound
    /\ ctx[own["w1"]].ID # ctx[own["w2"]].ID

====
